---- MODULE Spec2Model ----
(***************************************************************************)
(* Library Management System CRUD API (src/app/api.py).                    *)
(*                                                                         *)
(* The store is the three tables the loan lifecycle reads and writes       *)
(* (books, members, loan_transactions).  Every handler is a sequence of    *)
(* execute_query round trips; execute_query commits (or rolls back) each   *)
(* statement on its own connection, so one round trip is one atomic step   *)
(* of the model and nothing wider is.                                      *)
(***************************************************************************)
EXTENDS Integers, Sequences, FiniteSets, TLC

\* ------------------------------------------------------------------ bounds
MaxBooks == 1
MaxMembers == 1
MaxLoans == 2
MaxCopies == 2
MaxAllowed == 2
MaxDate == 2
MaxKeys == 2
MaxPage == 2
MaxTotal == 95
MaxRows == 2
MaxTitles == 2
MaxAuthors == 2
MaxStatements == 2
NumProcs == 2

BookIds == 1..MaxBooks
MemberIds == 1..MaxMembers
\* ids a request may name: the stored ones and one that is never stored
ReqBookIds == 1..(MaxBooks + 1)
ReqMemberIds == 1..(MaxMembers + 1)
ReqLoanIds == 1..(MaxLoans + 1)
Dates == 1..MaxDate
Procs == 1..NumProcs
\* the single-worker event loop serves one request at a time
SerialProcs == {1}
\* the values of a unique column: as many as there are rows to hold them
Isbns == 1..MaxBooks
MembershipNumbers == 1..MaxMembers

\* Optional[...] request fields: the empty set is None, {v} is the value v
None == {}
Opt(S) == {None} \cup {{v} : v \in S}
IsSet(o) == o # None
Val(o) == CHOOSE v \in o : TRUE

VARIABLES
    books,          \* book_id -> [total_copies, available_copies]
    members,        \* member_id -> [is_active, max_books_allowed]
    loans,          \* loan_transactions; transaction_id is the index
    nextBookId,     \* AUTO_INCREMENT of books
    nextMemberId,   \* AUTO_INCREMENT of members
    calls,          \* the request each worker is serving
    pre,            \* the store as it was when the serial request arrived
    ledger,         \* per book: copies at the start, successful borrows/returns
    gateway,        \* the connection pool and the execute_transaction under study
    listing,        \* the rows a list endpoint selects from, and the pages served
    book_authors,   \* the authorship links: pairs <<book_id, author_id>>
    sessions        \* per worker: LAST_INSERT_ID() of each pooled connection, in queue order

vars == <<books, members, loans, nextBookId, nextMemberId, calls, pre, ledger,
          gateway, listing, book_authors, sessions>>
store == <<books, members, loans, nextBookId, nextMemberId, book_authors>>
\* what only the gateway, the list endpoints and the id lookups touch
others == <<gateway, listing, sessions>>

\* ------------------------------------------------------------------ store
\* db_config['pool_size']
pool_size == 10

\* db_config['pool_reset_session']
pool_reset_session == TRUE

\* a connection whose session has inserted nothing: LAST_INSERT_ID() is 0
FreshSession == [last_insert_id |-> 0]

\* mysql.connector.pooling.MySQLConnectionPool(**db_config): pool_size
\* connections are opened at construction and kept in a queue
FreshPool == [i \in 1..pool_size |-> FreshSession]

\* get_connection(): the connection at the head of the queue
Checkout(pool) == Head(pool)

\* connection.close() on a pooled connection: the session is reset when
\* pool_reset_session is set, and the connection goes to the back of the queue
Checkin(pool, session) ==
    Append(Tail(pool), IF pool_reset_session THEN FreshSession ELSE session)

\* an INSERT into a table with an AUTO_INCREMENT key, run on this session
Inserted(session, id) == [session EXCEPT !.last_insert_id = id]

Snapshot == [books |-> books, members |-> members, loans |-> loans,
             book_authors |-> book_authors]

\* SELECT COUNT(*) FROM loan_transactions WHERE member_id = %s AND loan_status = "Active"
ActiveLoansOfMember(ls, m) ==
    Cardinality({i \in DOMAIN ls : ls[i].member_id = m /\ ls[i].loan_status = "Active"})

\* SELECT COUNT(*) FROM loan_transactions WHERE book_id = %s AND loan_status = "Active"
ActiveLoansOfBook(ls, b) ==
    Cardinality({i \in DOMAIN ls : ls[i].book_id = b /\ ls[i].loan_status = "Active"})

\* the row INSERT INTO loan_transactions (member_id, book_id, ...) stores;
\* loan_status and return_date are not listed and take the column defaults
DefaultLoanStatus == "Active"
DefaultReturnDate == "NULL"

NewLoanRow(m, b) ==
    [member_id |-> m, book_id |-> b,
     loan_status |-> DefaultLoanStatus, return_date |-> DefaultReturnDate]

\* ------------------------------------------------------------------ calls
Idle ==
    [op |-> "none", pc |-> "idle",
     book_id |-> 0, member_id |-> 0, transaction_id |-> 0,
     total_copies |-> None, available_copies |-> None,
     is_active |-> None, max_books_allowed |-> None,
     loan_date |-> 0, due_date |-> 0,
     isbn |-> None, membership_number |-> None,
     row |-> None,
     \* rest: the entries of authors the loop has not inserted yet;
     \* inserted: the id the INSERT of this call generated
     authors |-> None, rest |-> <<>>, inserted |-> None,
     page |-> 1, limit |-> 1,
     membership_start_date |-> None, membership_expiry_date |-> None,
     status |-> 0, detail |-> "", data |-> None]

\* the handler returns or raises: the response leaves, the locals are gone
Respond(c, st, msg) ==
    [c EXCEPT !.pc = "done", !.status = st, !.detail = msg, !.row = None]

\* execute_query: mysql.connector.Error -> rollback, HTTPException(500); the
\* str(e) that follows "Database error" in the detail is kept by execute_except
DbError(c) == Respond(c, 500, "Database error")

Free(p) == calls[p].pc \in {"idle", "done"}

\* a request is accepted by worker p; serially only when nothing is in flight
Accept(p, serial) ==
    /\ Free(p)
    /\ serial => (p \in SerialProcs /\ \A q \in Procs : Free(q))

Arrive(p, serial, c) ==
    /\ calls' = [calls EXCEPT ![p] = c]
    /\ pre' = IF serial THEN Snapshot ELSE pre
    /\ UNCHANGED <<store, others>>

At(p, o, l) == calls[p].op = o /\ calls[p].pc = l

\* ----------------------------------------------------------------- ledger
\* bookkeeping of the borrow/return arithmetic: for a book on which only
\* successful create_loan and return_book calls have acted since it was
\* stored, the copies it started with and the number of each kind of call
NoLedger == [clean |-> FALSE, k |-> 0, borrows |-> 0, returns |-> 0]
Opened(l, b, k0) == [l EXCEPT ![b] = [clean |-> TRUE, k |-> k0, borrows |-> 0, returns |-> 0]]
Tainted(l, b) == IF b \in DOMAIN l THEN [l EXCEPT ![b] = NoLedger] ELSE l
Borrowed(l, b) ==
    IF b \in DOMAIN l /\ l[b].clean THEN [l EXCEPT ![b].borrows = @ + 1] ELSE l
Returned(l, b) ==
    IF b \in DOMAIN l /\ l[b].clean THEN [l EXCEPT ![b].returns = @ + 1] ELSE l

\* requests in flight that will still insert a row of the given kind
InFlight(o) == Cardinality({q \in Procs : calls[q].op = o /\ calls[q].pc # "done"})

\* ------------------------------------------------------------ create_loan
\* the due-date validator with < for <=
validate_due_date_Equal(loan_date, due_date) == ~(due_date < loan_date)

\* LoanCreate.validate_due_date: v <= values['loan_date'] raises ValueError
validate_due_date(loan_date, due_date) == ~(due_date <= loan_date)

\* POST /api/loans: the body is validated into a LoanCreate before the handler runs
create_loan_request(p, serial) ==
    \E m \in ReqMemberIds, b \in ReqBookIds, ld \in Dates, dd \in Dates :
        /\ Accept(p, serial)
        /\ Len(loans) + InFlight("create_loan") < MaxLoans
        /\ LET c == [Idle EXCEPT !.op = "create_loan", !.member_id = m, !.book_id = b,
                                 !.loan_date = ld, !.due_date = dd]
           IN Arrive(p, serial,
                     IF validate_due_date(ld, dd)
                     THEN [c EXCEPT !.pc = "book"]
                     ELSE Respond(c, 422, "Due date must be after loan date"))
        /\ UNCHANGED ledger

\* the availability check with < for <=
BookNotAvailable_Strict(bs, b) == b \notin DOMAIN bs \/ bs[b].available_copies < 0

\* if not book or book['available_copies'] <= 0
BookNotAvailable(bs, b) == b \notin DOMAIN bs \/ bs[b].available_copies <= 0

\* if current_loans['count'] >= member['max_books_allowed']
LoanLimitReached(count, max_books_allowed) == count >= max_books_allowed

\* SELECT available_copies FROM books WHERE book_id = %s, and the check on it
create_loan_book(p, fail) ==
    /\ At(p, "create_loan", "book")
    /\ LET c == calls[p] IN
       calls' = [calls EXCEPT ![p] =
            IF fail THEN DbError(c)
            ELSE IF BookNotAvailable(books, c.book_id)
                 THEN Respond(c, 400, "Book is not available for loan")
                 ELSE [c EXCEPT !.pc = "member"]]
    /\ ledger' = IF fail THEN Tainted(ledger, calls[p].book_id) ELSE ledger
    /\ UNCHANGED <<store, pre, others>>

\* SELECT is_active, max_books_allowed FROM members WHERE member_id = %s
create_loan_member(p, fail) ==
    /\ At(p, "create_loan", "member")
    /\ LET c == calls[p] IN
       calls' = [calls EXCEPT ![p] =
            IF fail THEN DbError(c)
            ELSE IF c.member_id \notin DOMAIN members
                 THEN Respond(c, 404, "Member not found")
            ELSE IF ~members[c.member_id].is_active
                 THEN Respond(c, 400, "Member account is not active")
            ELSE [c EXCEPT !.pc = "count",
                           !.row = {members[c.member_id].max_books_allowed}]]
    /\ ledger' = IF fail THEN Tainted(ledger, calls[p].book_id) ELSE ledger
    /\ UNCHANGED <<store, pre, others>>

\* SELECT COUNT(*) ... WHERE member_id = %s AND loan_status = "Active"
create_loan_count(p, fail) ==
    /\ At(p, "create_loan", "count")
    /\ LET c == calls[p] IN
       calls' = [calls EXCEPT ![p] =
            IF fail THEN DbError(c)
            ELSE IF LoanLimitReached(ActiveLoansOfMember(loans, c.member_id), Val(c.row))
                 THEN Respond(c, 400, "Member has reached maximum book loan limit")
                 ELSE [c EXCEPT !.pc = "insert", !.row = None]]
    /\ ledger' = IF fail THEN Tainted(ledger, calls[p].book_id) ELSE ledger
    /\ UNCHANGED <<store, pre, others>>

\* INSERT INTO loan_transactions ..., committed by execute_query
create_loan_insert(p, fail) ==
    /\ At(p, "create_loan", "insert")
    /\ LET c == calls[p] IN
       /\ calls' = [calls EXCEPT ![p] = IF fail THEN DbError(c) ELSE [c EXCEPT !.pc = "update"]]
       /\ loans' = IF fail THEN loans ELSE Append(loans, NewLoanRow(c.member_id, c.book_id))
    /\ ledger' = IF fail THEN Tainted(ledger, calls[p].book_id) ELSE ledger
    /\ UNCHANGED <<books, members, nextBookId, nextMemberId, book_authors, pre, others>>

\* the decrement taking two copies
DecrementAvailable_Twice(bs, b) ==
    IF b \in DOMAIN bs THEN [bs EXCEPT ![b].available_copies = @ - 2] ELSE bs

\* UPDATE books SET available_copies = available_copies - 1 WHERE book_id = %s
DecrementAvailable(bs, b) ==
    IF b \in DOMAIN bs THEN [bs EXCEPT ![b].available_copies = @ - 1] ELSE bs

create_loan_update(p, fail) ==
    /\ At(p, "create_loan", "update")
    /\ LET c == calls[p] IN
       /\ calls' = [calls EXCEPT ![p] =
            \* StandardResponse(message=...): data keeps its default, None
            IF fail THEN DbError(c) ELSE Respond(c, 201, "Book loan created successfully")]
       /\ books' = IF fail THEN books ELSE DecrementAvailable(books, c.book_id)
       /\ ledger' = IF fail THEN Tainted(ledger, c.book_id) ELSE Borrowed(ledger, c.book_id)
    /\ UNCHANGED <<members, loans, nextBookId, nextMemberId, book_authors, pre, others>>

\* ------------------------------------------------------------ return_book
\* PUT /api/loans/{transaction_id}/return
return_book_request(p, serial) ==
    \E t \in ReqLoanIds :
        /\ Accept(p, serial)
        /\ Arrive(p, serial, [Idle EXCEPT !.op = "return_book", !.transaction_id = t,
                                         !.pc = "select"])
        /\ UNCHANGED ledger

\* the lookup without its loan_status condition
ActiveLoanFound_AnyStatus(ls, t) == t \in DOMAIN ls

\* SELECT * FROM loan_transactions WHERE transaction_id = %s AND loan_status = 'Active'
ActiveLoanFound(ls, t) == t \in DOMAIN ls /\ ls[t].loan_status = "Active"

return_book_select(p, fail) ==
    /\ At(p, "return_book", "select")
    /\ LET c == calls[p] IN
       calls' = [calls EXCEPT ![p] =
            IF fail THEN DbError(c)
            ELSE IF ~ActiveLoanFound(loans, c.transaction_id)
                 THEN Respond(c, 404, "Active loan not found")
                 ELSE [c EXCEPT !.pc = "update_loan",
                                !.row = {loans[c.transaction_id].book_id}]]
    /\ UNCHANGED <<store, pre, ledger, others>>

\* the return that stamps the date and leaves loan_status alone
MarkReturned_DateOnly(ls, t) ==
    IF t \in DOMAIN ls THEN [ls EXCEPT ![t].return_date = "CURDATE"] ELSE ls

\* UPDATE loan_transactions SET loan_status = 'Returned', return_date = CURDATE()
\*   WHERE transaction_id = %s
MarkReturned(ls, t) ==
    IF t \in DOMAIN ls
    THEN [ls EXCEPT ![t].loan_status = "Returned", ![t].return_date = "CURDATE"]
    ELSE ls

return_book_update_loan(p, fail) ==
    /\ At(p, "return_book", "update_loan")
    /\ LET c == calls[p] IN
       /\ calls' = [calls EXCEPT ![p] =
            IF fail THEN DbError(c) ELSE [c EXCEPT !.pc = "update_book"]]
       /\ loans' = IF fail THEN loans ELSE MarkReturned(loans, c.transaction_id)
       /\ ledger' = IF fail THEN Tainted(ledger, Val(c.row)) ELSE ledger
    /\ UNCHANGED <<books, members, nextBookId, nextMemberId, book_authors, pre, others>>

\* the increment without its WHERE clause
IncrementAvailable_EveryBook(bs, b) ==
    [x \in DOMAIN bs |-> [bs[x] EXCEPT !.available_copies = @ + 1]]

\* UPDATE books SET available_copies = available_copies + 1 WHERE book_id = %s
IncrementAvailable(bs, b) ==
    IF b \in DOMAIN bs THEN [bs EXCEPT ![b].available_copies = @ + 1] ELSE bs

return_book_update_book(p, fail) ==
    /\ At(p, "return_book", "update_book")
    /\ LET c == calls[p] IN
       /\ calls' = [calls EXCEPT ![p] =
            IF fail THEN DbError(c) ELSE Respond(c, 200, "Book returned successfully")]
       /\ books' = IF fail THEN books ELSE IncrementAvailable(books, Val(c.row))
       /\ ledger' = IF fail THEN Tainted(ledger, Val(c.row)) ELSE Returned(ledger, Val(c.row))
    /\ UNCHANGED <<members, loans, nextBookId, nextMemberId, book_authors, pre, others>>

\* ------------------------------------------------------------ create_book
\* BookBase: total_copies >= 1, available_copies >= 0, and
\* validate_available_copies: v > values['total_copies'] raises ValueError
validate_available_copies(total_copies, available_copies) ==
    ~(IsSet(available_copies) /\ Val(available_copies) > total_copies)

\* books.isbn is a unique key: an INSERT of a stored value raises IntegrityError
IsbnTaken(bs, i) == \E b \in DOMAIN bs : bs[b].isbn = i

\* BookCreate.authors / BookUpdate.authors: null, or a list of
\* {"author_id": ...} entries, here of distinct authors
AuthorIds == 1..MaxAuthors
AuthorLists ==
    {<<>>} \cup {<<a>> : a \in AuthorIds}
           \cup ({<<a, b>> : a, b \in AuthorIds} \ {<<a, a>> : a \in AuthorIds})

\* BookBase: isbn and total_copies are required (Field(...)), total_copies >= 1;
\* the available_copies validator runs only when total_copies passed
BookCreateError(isbn, total_copies, available_copies) ==
    IF ~IsSet(isbn) \/ ~IsSet(total_copies) THEN "Field required"
    ELSE IF Val(total_copies) < 1 THEN "Input should be greater than or equal to 1"
    ELSE IF ~validate_available_copies(Val(total_copies), available_copies)
         THEN "Available copies cannot exceed total copies"
    ELSE ""

\* POST /api/books: the body is validated into a BookCreate before the
\* handler runs; a body that does not validate is answered 422
create_book_post(p, serial, isbnChoices, totalChoices, authorChoices) ==
    \E i \in isbnChoices, t \in totalChoices, a \in Opt(0..MaxCopies),
       au \in authorChoices :
        /\ Accept(p, serial)
        /\ \/ nextBookId + InFlight("create_book") <= MaxBooks
           \/ IF IsSet(i) THEN IsbnTaken(books, Val(i)) ELSE TRUE
        /\ LET c == [Idle EXCEPT !.op = "create_book", !.isbn = i,
                                 !.total_copies = t, !.available_copies = a,
                                 !.authors = au]
               error == BookCreateError(i, t, a)
           IN Arrive(p, serial,
                     IF error = "" THEN [c EXCEPT !.pc = "insert"]
                     ELSE Respond(c, 422, error))
        /\ UNCHANGED ledger

\* a body with its required fields present and total_copies in range
create_book_body(p, serial, authorChoices) ==
    create_book_post(p, serial, {{i} : i \in Isbns}, {{t} : t \in 1..MaxCopies},
                     authorChoices)

\* a BookCreate that leaves authors at its default, the empty list
create_book_request(p, serial) == create_book_body(p, serial, {{<<>>}})

\* available_copies = book.available_copies if ... is not None else book.total_copies
NewBookRow(isbn, total_copies, available_copies) ==
    [isbn |-> isbn,
     total_copies |-> total_copies,
     available_copies |-> IF IsSet(available_copies) THEN Val(available_copies)
                          ELSE total_copies]

\* execute_transaction([INSERT INTO books ...])
create_book_insert(p, fail) ==
    /\ At(p, "create_book", "insert")
    /\ LET c == calls[p]
           r == NewBookRow(Val(c.isbn), Val(c.total_copies), c.available_copies)
           \* IntegrityError is a mysql.connector.Error: execute_transaction turns
           \* it into the HTTPException before the handler's except clause sees it
           err == fail \/ IsbnTaken(books, Val(c.isbn))
       IN
       /\ calls' = [calls EXCEPT ![p] =
            IF err THEN DbError(c)
            ELSE [c EXCEPT !.pc = "last_id", !.inserted = {nextBookId}]]
       /\ books' = IF err THEN books ELSE (nextBookId :> r) @@ books
       /\ nextBookId' = IF err THEN nextBookId ELSE nextBookId + 1
       /\ ledger' = IF err THEN ledger ELSE Opened(ledger, nextBookId, r.available_copies)
       \* the connection that ran the INSERT goes back to the pool
       /\ sessions' = [sessions EXCEPT ![p] =
            Checkin(@, IF err THEN Checkout(@) ELSE Inserted(Checkout(@), nextBookId))]
    /\ UNCHANGED <<members, loans, nextMemberId, book_authors, pre, gateway, listing>>

\* book_authors.book_id references books: an INSERT naming a book that is
\* not stored raises IntegrityError
LinkRejected(bs, b) == b \notin DOMAIN bs

\* book_id_result = execute_query("SELECT LAST_INSERT_ID() as book_id"): the
\* statement runs on the connection get_db_connection() hands out now
create_book_last_id(p, fail) ==
    /\ At(p, "create_book", "last_id")
    /\ LET c == calls[p]
           book_id == Checkout(sessions[p]).last_insert_id
       IN
       /\ calls' = [calls EXCEPT ![p] =
            IF fail THEN DbError(c)
            ELSE IF IsSet(c.authors) /\ Val(c.authors) # <<>>
                 THEN [c EXCEPT !.pc = "authors", !.book_id = book_id,
                                !.rest = Val(c.authors)]
                 ELSE [Respond(c, 201, "Book created successfully")
                         EXCEPT !.book_id = book_id, !.data = {book_id}]]
       /\ sessions' = [sessions EXCEPT ![p] = Checkin(@, Checkout(@))]
    /\ UNCHANGED <<store, pre, ledger, gateway, listing>>

\* for author in book.authors: INSERT INTO book_authors (book_id, author_id, ...),
\* each through its own execute_query; after the last one the 201 response
create_book_author(p, fail) ==
    /\ At(p, "create_book", "authors")
    /\ LET c == calls[p]
           err == fail \/ LinkRejected(books, c.book_id)
       IN
       /\ calls' = [calls EXCEPT ![p] =
            IF err THEN DbError(c)
            ELSE IF Len(c.rest) > 1 THEN [c EXCEPT !.rest = Tail(@)]
            ELSE [Respond(c, 201, "Book created successfully")
                    EXCEPT !.rest = <<>>, !.data = {c.book_id}]]
       /\ book_authors' = IF err THEN book_authors
                          ELSE book_authors \cup {<<c.book_id, Head(c.rest)>>}
       /\ sessions' = [sessions EXCEPT ![p] = Checkin(@, Checkout(@))]
    /\ UNCHANGED <<books, members, loans, nextBookId, nextMemberId, pre, ledger,
                   gateway, listing>>

\* ------------------------------------------------------------ update_book
\* PUT /api/books/{book_id}: BookUpdate has total_copies >= 1 and
\* available_copies >= 0, each optional
update_book_body(p, serial, authorChoices) ==
    \E b \in ReqBookIds, t \in Opt(1..MaxCopies), a \in Opt(0..MaxCopies),
       au \in authorChoices :
        /\ Accept(p, serial)
        /\ Arrive(p, serial, [Idle EXCEPT !.op = "update_book", !.book_id = b,
                                         !.total_copies = t, !.available_copies = a,
                                         !.authors = au, !.pc = "exists"])
        /\ UNCHANGED ledger

\* a BookUpdate that does not supply authors
update_book_request(p, serial) == update_book_body(p, serial, {None})

\* SELECT book_id FROM books WHERE book_id = %s; if update_fields: ...
update_book_exists(p, fail) ==
    /\ At(p, "update_book", "exists")
    /\ LET c == calls[p] IN
       calls' = [calls EXCEPT ![p] =
            IF fail THEN DbError(c)
            ELSE IF c.book_id \notin DOMAIN books THEN Respond(c, 404, "Book not found")
            ELSE IF IsSet(c.total_copies) \/ IsSet(c.available_copies)
                 THEN [c EXCEPT !.pc = "update"]
            ELSE IF IsSet(c.authors) THEN [c EXCEPT !.pc = "delete_authors"]
            ELSE Respond(c, 200, "Book updated successfully")]
    /\ UNCHANGED <<store, pre, ledger, others>>

\* UPDATE books SET <every supplied field> = %s, updated_at = NOW() WHERE book_id = %s
UpdatedBookRow(r, total_copies, available_copies) ==
    [isbn |-> r.isbn,
     total_copies |-> IF IsSet(total_copies) THEN Val(total_copies) ELSE r.total_copies,
     available_copies |-> IF IsSet(available_copies) THEN Val(available_copies)
                          ELSE r.available_copies]

update_book_update(p, fail) ==
    /\ At(p, "update_book", "update")
    /\ LET c == calls[p] IN
       /\ calls' = [calls EXCEPT ![p] =
            IF fail THEN DbError(c)
            ELSE IF IsSet(c.authors) THEN [c EXCEPT !.pc = "delete_authors"]
            ELSE Respond(c, 200, "Book updated successfully")]
       /\ books' = IF fail \/ c.book_id \notin DOMAIN books THEN books
                   ELSE [books EXCEPT ![c.book_id] =
                            UpdatedBookRow(@, c.total_copies, c.available_copies)]
       /\ ledger' = IF fail THEN ledger ELSE Tainted(ledger, c.book_id)
    /\ UNCHANGED <<members, loans, nextBookId, nextMemberId, book_authors, pre, others>>

\* DELETE FROM book_authors WHERE book_id = %s
LinksWithout(links, b) == {l \in links : l[1] # b}

\* if book.authors is not None: execute_query(DELETE FROM book_authors ...)
update_book_delete_authors(p, fail) ==
    /\ At(p, "update_book", "delete_authors")
    /\ LET c == calls[p] IN
       /\ calls' = [calls EXCEPT ![p] =
            IF fail THEN DbError(c)
            ELSE IF Val(c.authors) = <<>> THEN Respond(c, 200, "Book updated successfully")
            ELSE [c EXCEPT !.pc = "authors", !.rest = Val(c.authors)]]
       /\ book_authors' = IF fail THEN book_authors ELSE LinksWithout(book_authors, c.book_id)
    /\ UNCHANGED <<books, members, loans, nextBookId, nextMemberId, pre, ledger, others>>

\* for author in book.authors: execute_query(INSERT INTO book_authors ...)
update_book_author(p, fail) ==
    /\ At(p, "update_book", "authors")
    /\ LET c == calls[p]
           err == fail \/ LinkRejected(books, c.book_id)
       IN
       /\ calls' = [calls EXCEPT ![p] =
            IF err THEN DbError(c)
            ELSE IF Len(c.rest) > 1 THEN [c EXCEPT !.rest = Tail(@)]
            ELSE [Respond(c, 200, "Book updated successfully") EXCEPT !.rest = <<>>]]
       /\ book_authors' = IF err THEN book_authors
                          ELSE book_authors \cup {<<c.book_id, Head(c.rest)>>}
    /\ UNCHANGED <<books, members, loans, nextBookId, nextMemberId, pre, ledger, others>>

\* ------------------------------------------------------------ delete_book
\* DELETE /api/books/{book_id}
delete_book_request(p, serial) ==
    \E b \in ReqBookIds :
        /\ Accept(p, serial)
        /\ Arrive(p, serial, [Idle EXCEPT !.op = "delete_book", !.book_id = b,
                                         !.pc = "exists"])
        /\ UNCHANGED ledger

delete_book_exists(p, fail) ==
    /\ At(p, "delete_book", "exists")
    /\ LET c == calls[p] IN
       calls' = [calls EXCEPT ![p] =
            IF fail THEN DbError(c)
            ELSE IF c.book_id \notin DOMAIN books THEN Respond(c, 404, "Book not found")
            ELSE [c EXCEPT !.pc = "count"]]
    /\ UNCHANGED <<store, pre, ledger, others>>

\* the deletion guard off by one
HasActiveLoans_OffByOne(count) == count > 1

\* if active_loans['count'] > 0
HasActiveLoans(count) == count > 0

delete_book_count(p, fail) ==
    /\ At(p, "delete_book", "count")
    /\ LET c == calls[p] IN
       calls' = [calls EXCEPT ![p] =
            IF fail THEN DbError(c)
            ELSE IF HasActiveLoans(ActiveLoansOfBook(loans, c.book_id))
                 THEN Respond(c, 400, "Cannot delete book with active loans")
                 ELSE [c EXCEPT !.pc = "delete"]]
    /\ UNCHANGED <<store, pre, ledger, others>>

\* DELETE FROM books WHERE book_id = %s
DeleteBookRow(bs, b) == [x \in DOMAIN bs \ {b} |-> bs[x]]

\* book_authors.book_id references books ON DELETE CASCADE: the links of a
\* deleted book go with it ("CASCADE will handle book_authors")
CascadeLinks(links, b) == {l \in links : l[1] # b}

delete_book_delete(p, fail) ==
    /\ At(p, "delete_book", "delete")
    /\ LET c == calls[p] IN
       /\ calls' = [calls EXCEPT ![p] =
            IF fail THEN DbError(c) ELSE Respond(c, 200, "Book deleted successfully")]
       /\ books' = IF fail THEN books ELSE DeleteBookRow(books, c.book_id)
       /\ book_authors' = IF fail THEN book_authors ELSE CascadeLinks(book_authors, c.book_id)
       /\ ledger' = IF fail THEN ledger ELSE Tainted(ledger, c.book_id)
    /\ UNCHANGED <<members, loans, nextBookId, nextMemberId, pre, others>>

\* ---------------------------------------------------------- create_member
\* POST /api/members: MemberBase has max_books_allowed > 0; the INSERT does not
\* list is_active, which takes the column default
DefaultIsActive == TRUE

NewMemberRow(membership_number, max_books_allowed, start_date, expiry_date) ==
    [membership_number |-> membership_number,
     is_active |-> DefaultIsActive, max_books_allowed |-> max_books_allowed,
     membership_start_date |-> start_date, membership_expiry_date |-> expiry_date]

\* MemberBase.validate_expiry_date: v <= values['membership_start_date'] raises
validate_expiry_date(start_date, expiry_date) == ~(expiry_date <= start_date)

\* a membership from the first day to the last
FullPeriod == <<1, MaxDate>>

\* members.membership_number is a unique key
MembershipNumberTaken(ms, n) == \E m \in DOMAIN ms : ms[m].membership_number = n

\* POST /api/members: the body is validated into a MemberCreate
create_member_body(p, serial, periods) ==
    \E n \in MembershipNumbers, x \in 1..MaxAllowed, d \in periods :
        /\ Accept(p, serial)
        /\ \/ nextMemberId + InFlight("create_member") <= MaxMembers
           \/ MembershipNumberTaken(members, n)
        /\ LET c == [Idle EXCEPT !.op = "create_member",
                                 !.membership_number = {n},
                                 !.max_books_allowed = {x},
                                 !.membership_start_date = {d[1]},
                                 !.membership_expiry_date = {d[2]}]
           IN Arrive(p, serial,
                     IF validate_expiry_date(d[1], d[2])
                     THEN [c EXCEPT !.pc = "insert"]
                     ELSE Respond(c, 422, "Expiry date must be after start date"))
        /\ UNCHANGED ledger

\* a MemberCreate for the full period
create_member_request(p, serial) == create_member_body(p, serial, {FullPeriod})

\* execute_query(INSERT INTO members ...)
create_member_insert(p, fail) ==
    /\ At(p, "create_member", "insert")
    /\ LET c == calls[p]
           r == NewMemberRow(Val(c.membership_number), Val(c.max_books_allowed),
                             Val(c.membership_start_date), Val(c.membership_expiry_date))
           \* the IntegrityError leaves execute_query as the HTTPException
           err == fail \/ MembershipNumberTaken(members, Val(c.membership_number))
       IN
       /\ calls' = [calls EXCEPT ![p] =
            IF err THEN DbError(c)
            ELSE [c EXCEPT !.pc = "last_id", !.inserted = {nextMemberId}]]
       /\ members' = IF err THEN members ELSE (nextMemberId :> r) @@ members
       /\ nextMemberId' = IF err THEN nextMemberId ELSE nextMemberId + 1
       /\ sessions' = [sessions EXCEPT ![p] =
            Checkin(@, IF err THEN Checkout(@) ELSE Inserted(Checkout(@), nextMemberId))]
    /\ UNCHANGED <<books, loans, nextBookId, book_authors, pre, ledger, gateway, listing>>

\* member_id_result = execute_query("SELECT LAST_INSERT_ID() as member_id"),
\* on the connection get_db_connection() hands out now; then the 201 response
create_member_last_id(p, fail) ==
    /\ At(p, "create_member", "last_id")
    /\ LET c == calls[p]
           member_id == Checkout(sessions[p]).last_insert_id
       IN
       /\ calls' = [calls EXCEPT ![p] =
            IF fail THEN DbError(c)
            ELSE [Respond(c, 201, "Member created successfully")
                    EXCEPT !.member_id = member_id, !.data = {member_id}]]
       /\ sessions' = [sessions EXCEPT ![p] = Checkin(@, Checkout(@))]
    /\ UNCHANGED <<store, pre, ledger, gateway, listing>>

\* ---------------------------------------------------------- update_member
\* PUT /api/members/{member_id}: MemberUpdate has is_active and
\* max_books_allowed > 0, each optional
\* membership_start_date and membership_expiry_date are optional dates,
\* and MemberUpdate has no validator
update_member_body(p, serial, starts, expiries) ==
    \E m \in ReqMemberIds, a \in Opt(BOOLEAN), x \in Opt(1..MaxAllowed),
       sd \in starts, ed \in expiries :
        /\ Accept(p, serial)
        /\ Arrive(p, serial, [Idle EXCEPT !.op = "update_member", !.member_id = m,
                                         !.is_active = a, !.max_books_allowed = x,
                                         !.membership_start_date = sd,
                                         !.membership_expiry_date = ed,
                                         !.pc = "exists"])
        /\ UNCHANGED ledger

\* a MemberUpdate that supplies neither date
update_member_request(p, serial) == update_member_body(p, serial, {None}, {None})

update_member_exists(p, fail) ==
    /\ At(p, "update_member", "exists")
    /\ LET c == calls[p] IN
       calls' = [calls EXCEPT ![p] =
            IF fail THEN DbError(c)
            ELSE IF c.member_id \notin DOMAIN members THEN Respond(c, 404, "Member not found")
            ELSE IF \/ IsSet(c.is_active) \/ IsSet(c.max_books_allowed)
                    \/ IsSet(c.membership_start_date) \/ IsSet(c.membership_expiry_date)
                 THEN [c EXCEPT !.pc = "update"]
                 ELSE Respond(c, 200, "Member updated successfully")]
    /\ UNCHANGED <<store, pre, ledger, others>>

\* UPDATE members SET <every supplied field> = %s, updated_at = NOW() WHERE member_id = %s
UpdatedMemberRow(r, is_active, max_books_allowed, start_date, expiry_date) ==
    [membership_number |-> r.membership_number,
     is_active |-> IF IsSet(is_active) THEN Val(is_active) ELSE r.is_active,
     max_books_allowed |-> IF IsSet(max_books_allowed) THEN Val(max_books_allowed)
                           ELSE r.max_books_allowed,
     membership_start_date |-> IF IsSet(start_date) THEN Val(start_date)
                               ELSE r.membership_start_date,
     membership_expiry_date |-> IF IsSet(expiry_date) THEN Val(expiry_date)
                                ELSE r.membership_expiry_date]

update_member_update(p, fail) ==
    /\ At(p, "update_member", "update")
    /\ LET c == calls[p] IN
       /\ calls' = [calls EXCEPT ![p] =
            IF fail THEN DbError(c) ELSE Respond(c, 200, "Member updated successfully")]
       /\ members' = IF fail \/ c.member_id \notin DOMAIN members THEN members
                     ELSE [members EXCEPT ![c.member_id] =
                              UpdatedMemberRow(@, c.is_active, c.max_books_allowed,
                                               c.membership_start_date,
                                               c.membership_expiry_date)]
    /\ UNCHANGED <<books, loans, nextBookId, nextMemberId, book_authors, pre, ledger, others>>

\* ---------------------------------------------------------- delete_member
\* DELETE /api/members/{member_id}
delete_member_request(p, serial) ==
    \E m \in ReqMemberIds :
        /\ Accept(p, serial)
        /\ Arrive(p, serial, [Idle EXCEPT !.op = "delete_member", !.member_id = m,
                                         !.pc = "exists"])
        /\ UNCHANGED ledger

delete_member_exists(p, fail) ==
    /\ At(p, "delete_member", "exists")
    /\ LET c == calls[p] IN
       calls' = [calls EXCEPT ![p] =
            IF fail THEN DbError(c)
            ELSE IF c.member_id \notin DOMAIN members THEN Respond(c, 404, "Member not found")
            ELSE [c EXCEPT !.pc = "count"]]
    /\ UNCHANGED <<store, pre, ledger, others>>

delete_member_count(p, fail) ==
    /\ At(p, "delete_member", "count")
    /\ LET c == calls[p] IN
       calls' = [calls EXCEPT ![p] =
            IF fail THEN DbError(c)
            ELSE IF HasActiveLoans(ActiveLoansOfMember(loans, c.member_id))
                 THEN Respond(c, 400, "Cannot delete member with active loans. Please return all books first.")
                 ELSE [c EXCEPT !.pc = "update"]]
    /\ UNCHANGED <<store, pre, ledger, others>>

\* the member row removed instead of flagged
DeactivateMemberRow_Remove(ms, m) == [x \in DOMAIN ms \ {m} |-> ms[x]]

\* UPDATE members SET is_active = 0, updated_at = NOW() WHERE member_id = %s
DeactivateMemberRow(ms, m) ==
    IF m \in DOMAIN ms THEN [ms EXCEPT ![m].is_active = FALSE] ELSE ms

delete_member_update(p, fail) ==
    /\ At(p, "delete_member", "update")
    /\ LET c == calls[p] IN
       /\ calls' = [calls EXCEPT ![p] =
            IF fail THEN DbError(c) ELSE Respond(c, 200, "Member deactivated successfully")]
       /\ members' = IF fail THEN members ELSE DeactivateMemberRow(members, c.member_id)
    /\ UNCHANGED <<books, loans, nextBookId, nextMemberId, book_authors, pre, ledger, others>>

\* ------------------------------------------------- get_book, get_member
\* a lookup that finds whatever it is asked for
RowFound_Always(rows, id) == TRUE

\* fetch_one of SELECT ... WHERE b.book_id = %s (m.member_id = %s): a row or None
RowFound(rows, id) == id \in DOMAIN rows

\* GET /api/books/{book_id}
get_book_request(p, serial) ==
    \E b \in ReqBookIds :
        /\ Accept(p, serial)
        /\ Arrive(p, serial, [Idle EXCEPT !.op = "get_book", !.book_id = b,
                                         !.pc = "select"])
        /\ UNCHANGED ledger

\* book = execute_query(query, (book_id,), fetch_one=True); if not book: 404
get_book_select(p, fail) ==
    /\ At(p, "get_book", "select")
    /\ LET c == calls[p] IN
       calls' = [calls EXCEPT ![p] =
            IF fail THEN DbError(c)
            ELSE IF ~RowFound(books, c.book_id) THEN Respond(c, 404, "Book not found")
            ELSE [Respond(c, 200, "Book retrieved successfully") EXCEPT !.data = {c.book_id}]]
    /\ UNCHANGED <<store, pre, ledger, others>>

\* GET /api/members/{member_id}
get_member_request(p, serial) ==
    \E m \in ReqMemberIds :
        /\ Accept(p, serial)
        /\ Arrive(p, serial, [Idle EXCEPT !.op = "get_member", !.member_id = m,
                                         !.pc = "select"])
        /\ UNCHANGED ledger

\* member = execute_query(member_query, ...); if not member: 404
get_member_select(p, fail) ==
    /\ At(p, "get_member", "select")
    /\ LET c == calls[p] IN
       calls' = [calls EXCEPT ![p] =
            IF fail THEN DbError(c)
            ELSE IF ~RowFound(members, c.member_id) THEN Respond(c, 404, "Member not found")
            ELSE [c EXCEPT !.pc = "history"]]
    /\ UNCHANGED <<store, pre, ledger, others>>

\* loan_history = execute_query(loan_history_query, (member_id,)), then the 200
get_member_history(p, fail) ==
    /\ At(p, "get_member", "history")
    /\ LET c == calls[p] IN
       calls' = [calls EXCEPT ![p] =
            IF fail THEN DbError(c)
            ELSE [Respond(c, 200, "Member retrieved successfully")
                    EXCEPT !.data = {c.member_id}]]
    /\ UNCHANGED <<store, pre, ledger, others>>

\* ------------------------------------------------------- response bodies
\* StandardResponse: success: bool = True, message, data
StandardResponse(message, data) == [success |-> TRUE, message |-> message, data |-> data]

\* http_exception_handler: {"success": False, "message": exc.detail}
http_exception_handler(detail) == [success |-> FALSE, message |-> detail]

\* the JSON body of a finished call: the handler's StandardResponse, or what
\* the exception handler makes of the HTTPException raised
ResponseBody(c) ==
    IF c.status \in {200, 201} THEN StandardResponse(c.detail, c.data)
    ELSE http_exception_handler(c.detail)

\* --------------------------------------------------- the list endpoints
\* GET /api/books, /api/members, /api/loans
ListOps == {"get_books", "get_members", "get_loans"}

\* limit: int = Query(10, ge=1, le=100)
limit_le == 100

\* the range check without the upper limit
QueryInRange_NoUpper(page, limit) == page >= 1 /\ limit >= 1

\* page: int = Query(1, ge=1), limit: int = Query(10, ge=1, le=100)
QueryInRange(page, limit) == page >= 1 /\ limit >= 1 /\ limit <= limit_le

\* the query string is validated before the handler runs
list_request(p, serial) ==
    \E o \in ListOps, page \in 0..MaxPage, limit \in {0, 1, limit_le, limit_le + 1} :
        /\ Accept(p, serial)
        /\ LET c == [Idle EXCEPT !.op = o, !.page = page, !.limit = limit] IN
           Arrive(p, serial,
                  IF QueryInRange(page, limit) THEN [c EXCEPT !.pc = "select"]
                  ELSE Respond(c, 422, "Input out of range"))
        /\ UNCHANGED ledger

\* the count and the page are read; what they hold is the listing's matter
list_select(p, fail) ==
    /\ \E o \in ListOps : At(p, o, "select")
    /\ calls' = [calls EXCEPT ![p] = IF fail THEN DbError(@) ELSE Respond(@, 200, "")]
    /\ UNCHANGED <<store, pre, ledger, others>>

\* ---------------------------------------------------------------- gateway
\* execute_query and execute_transaction against one table with a unique key.
\* No handler awaits, so one process has one gateway call running at a time.

Keys == 1..MaxKeys
\* the statements a call may be handed
Statements ==
    [kind : {"INSERT", "DELETE"}, key : Keys] \cup {[kind |-> "SELECT", key |-> 0]}
QueryLists == UNION {[1..n -> Statements] : n \in 0..MaxStatements}

\* str(e) of the mysql.connector.Error a statement or the commit may raise
NoError == ""
DuplicateEntry == "1062 (23000): Duplicate entry for key"
LockWaitTimeout == "1205 (HY000): Lock wait timeout exceeded"
Faults == {NoError, LockWaitTimeout}

\* cursor.execute on the connection's view of the table
StatementError(work, q) ==
    IF q.kind = "INSERT" /\ q.key \in work THEN DuplicateEntry ELSE NoError

Apply(work, q) ==
    IF q.kind = "INSERT" THEN work \cup {q.key}
    ELSE IF q.kind = "DELETE" THEN work \ {q.key}
    ELSE work

\* cursor.fetchall() if cursor.description else cursor.rowcount
StatementResult(work, q) ==
    IF q.kind = "SELECT" THEN [rows |-> work]
    ELSE IF q.kind = "INSERT" THEN [rowcount |-> 1]
    ELSE [rowcount |-> IF q.key \in work THEN 1 ELSE 0]

NoCall ==
    [fn |-> "none", pc |-> "idle", queries |-> <<>>, i |-> 1, connection |-> FALSE,
     work |-> {}, results |-> <<>>, start |-> {}, error |-> NoError,
     outcome |-> "none", detail |-> ""]

GatewayIdle == [out |-> 0, table |-> {}, call |-> NoCall, bodies |-> {}]

GatewayFree == gateway.call.pc \in {"idle", "returned", "raised"}

\* a handler calls execute_transaction(queries_and_params)
execute_transaction_call ==
    \E qs \in QueryLists :
        /\ GatewayFree
        /\ gateway' = [gateway EXCEPT !.call =
              [NoCall EXCEPT !.fn = "execute_transaction", !.pc = "connect",
                             !.queries = qs, !.start = gateway.table]]
        /\ UNCHANGED <<store, calls, pre, ledger, listing, sessions>>

\* a handler calls execute_query(query, params)
execute_query_call ==
    \E q \in Statements :
        /\ GatewayFree
        /\ gateway' = [gateway EXCEPT !.call =
              [NoCall EXCEPT !.fn = "execute_query", !.pc = "connect",
                             !.queries = <<q>>, !.start = gateway.table]]
        /\ UNCHANGED <<store, calls, pre, ledger, listing, sessions>>

\* the exception has left the function: HTTPException(500, detail)
Raised(c, msg) == [c EXCEPT !.pc = "raised", !.outcome = "raised", !.detail = msg]

\* connection = get_db_connection(); cursor = connection.cursor(dictionary=True)
\* connection_pool.get_connection() raises when the pool is empty or the
\* server is away; get_db_connection turns that into an HTTPException, which
\* `except Exception` catches with connection still None
execute_connect(fail) ==
    /\ gateway.call.pc = "connect"
    /\ LET c == gateway.call IN
       IF fail \/ gateway.out >= pool_size
       THEN gateway' = [gateway EXCEPT
                !.call = Raised(c, "Internal server error"),
                !.bodies = @ \cup {"Internal server error"}]
       ELSE gateway' = [gateway EXCEPT
                !.out = @ + 1,
                !.call = [c EXCEPT !.connection = TRUE, !.work = gateway.table,
                                    !.pc = IF Len(c.queries) = 0 THEN "commit"
                                           ELSE "execute"]]
    /\ UNCHANGED <<store, calls, pre, ledger, listing, sessions>>

\* commit after every statement, as a chain of execute_query calls would
CommitPoint_EachStatement(i, n) == i >= 1

\* connection.commit() stands after the loop over queries_and_params
CommitPoint(i, n) == i = n

\* cursor.execute(query, params or ()) and the result it leaves
execute_statement(fault) ==
    /\ gateway.call.pc = "execute"
    /\ LET c == gateway.call
           q == c.queries[c.i]
           e == IF fault # NoError THEN fault ELSE StatementError(c.work, q)
       IN
       gateway' = [gateway EXCEPT !.call =
            IF e # NoError THEN [c EXCEPT !.pc = "except", !.error = e]
            ELSE [c EXCEPT !.work = Apply(c.work, q),
                           !.results = Append(@, StatementResult(c.work, q)),
                           !.pc = IF CommitPoint(c.i, Len(c.queries)) THEN "commit"
                                  ELSE "execute",
                           !.i = IF CommitPoint(c.i, Len(c.queries)) THEN @ ELSE @ + 1]]
    /\ UNCHANGED <<store, calls, pre, ledger, listing, sessions>>

\* connection.commit(): what the connection wrote becomes the table
execute_commit(fault) ==
    /\ gateway.call.pc = "commit"
    /\ LET c == gateway.call IN
       gateway' =
            IF fault # NoError
            THEN [gateway EXCEPT !.call = [c EXCEPT !.pc = "except", !.error = fault]]
            ELSE [gateway EXCEPT
                    !.table = c.work,
                    !.call = IF c.i < Len(c.queries)
                             THEN [c EXCEPT !.pc = "execute", !.i = @ + 1]
                             ELSE [c EXCEPT !.pc = "finally", !.outcome = "returned"]]
    /\ UNCHANGED <<store, calls, pre, ledger, listing, sessions>>

\* except mysql.connector.Error as e: connection.rollback();
\* raise HTTPException(status_code=500, detail=f"Database error: {str(e)}")
execute_except ==
    /\ gateway.call.pc = "except"
    /\ gateway' = [gateway EXCEPT !.call =
            [@ EXCEPT !.work = gateway.table, !.pc = "finally", !.outcome = "raised",
                      !.detail = "Database error: " \o gateway.call.error]]
    /\ UNCHANGED <<store, calls, pre, ledger, listing, sessions>>

\* the close that only a call that returns reaches
ClosesConnection_OnReturn(outcome) == outcome = "returned"

\* finally: if connection: connection.close(), whatever way the try block ended
ClosesConnection(outcome) == outcome \in {"returned", "raised"}

execute_finally ==
    /\ gateway.call.pc = "finally"
    /\ LET c == gateway.call
           closes == c.connection /\ ClosesConnection(c.outcome)
       IN
       gateway' = [gateway EXCEPT
            !.out = IF closes THEN @ - 1 ELSE @,
            !.bodies = IF c.outcome = "raised" THEN @ \cup {c.detail} ELSE @,
            !.call = [c EXCEPT !.pc = c.outcome, !.connection = FALSE]]
    /\ UNCHANGED <<store, calls, pre, ledger, listing, sessions>>

\* ---------------------------------------------------------------- listing
ListingIdle == [rows |-> <<>>, limit |-> 1, available |-> None, served |-> <<>>]

\* the page count that always adds a page
Pages_OneMore(total, limit) == total \div limit + 1

\* pages=(total + limit - 1) // limit
Pages(total, limit) == (total + limit - 1) \div limit

\* PaginationResponse(page=page, limit=limit, total=total, pages=...)
PaginationResponse(page, limit, total) ==
    [page |-> page, limit |-> limit, total |-> total, pages |-> Pages(total, limit)]

\* the end of a list handler, for a count query that answered total
list_response ==
    /\ listing.pagination = None
    /\ listing' = [listing EXCEPT !.pagination =
                        {PaginationResponse(listing.page, listing.limit, listing.total)}]
    /\ UNCHANGED <<store, calls, pre, ledger, gateway, sessions>>

\* books b LEFT JOIN book_authors ba LEFT JOIN authors a: one joined row per
\* author of a book, and one for a book without authors
JoinedRows(rows) ==
    {<<b, a>> : b \in DOMAIN rows, a \in 1..MaxAuthors} \ 
    {<<b, a>> \in (DOMAIN rows) \X (1..MaxAuthors) : a > 1 /\ a > rows[b].authors}

\* if available is not None: AND b.available_copies > 0 / = 0
MatchesAvailable(row, available) ==
    \/ available = None
    \/ Val(available) /\ row.available_copies > 0
    \/ ~Val(available) /\ row.available_copies = 0

\* GROUP BY b.book_id over the joined rows that pass the WHERE clause
GroupedBooks(rows, available) ==
    {j[1] : j \in {x \in JoinedRows(rows) : MatchesAvailable(rows[x[1]], available)}}

\* SELECT COUNT(DISTINCT b.book_id) over the same join and WHERE clause
CountDistinctBooks(rows, available) == Cardinality(GroupedBooks(rows, available))

\* ORDER BY b.title: rows with equal titles come in whatever order the server
\* picks for this query
OrderedByTitle(rows, ids) ==
    {o \in [1..Cardinality(ids) -> ids] :
        /\ \A i, j \in DOMAIN o : i # j => o[i] # o[j]
        /\ \A i, j \in DOMAIN o : i < j => rows[o[i]].title <= rows[o[j]].title}

\* LIMIT %s OFFSET %s
LimitOffset(o, limit, offset) ==
    [i \in 1..(IF Len(o) - offset < 0 THEN 0
               ELSE IF Len(o) - offset < limit THEN Len(o) - offset
               ELSE limit) |-> o[offset + i]]

\* GET /api/books?page=&limit=&available=: the page query, then the count query
get_books ==
    \E page \in 1..MaxPage :
      \E o \in OrderedByTitle(listing.rows, GroupedBooks(listing.rows, listing.available)) :
        LET offset == (page - 1) * listing.limit
            total == CountDistinctBooks(listing.rows, listing.available)
            response == [data |-> LimitOffset(o, listing.limit, offset),
                         pagination |-> PaginationResponse(page, listing.limit, total)]
        IN
        /\ listing' = [listing EXCEPT !.served = (page :> response) @@ @]
        /\ UNCHANGED <<store, calls, pre, ledger, gateway, sessions>>

\* `if member_id:` / `if status:`: the filter is applied when the value is
\* truthy, which None, the integer 0 and the empty string are not
TruthyInt(o) == IsSet(o) /\ Val(o) # 0
TruthyStr(o) == IsSet(o) /\ Val(o) # ""

\* loan_transactions lt JOIN members m JOIN books b WHERE 1=1
\*   [AND lt.member_id = %s] [AND lt.loan_status = %s]
SelectLoans(ls, ms, bs, member_id, status) ==
    {t \in DOMAIN ls :
        /\ ls[t].member_id \in DOMAIN ms
        /\ ls[t].book_id \in DOMAIN bs
        /\ TruthyInt(member_id) => ls[t].member_id = Val(member_id)
        /\ TruthyStr(status) => ls[t].loan_status = Val(status)}

\* GET /api/loans?member_id=&status=: the page query (one page holds every
\* row here) and the count query, built from the same filters
get_loans ==
    \E member_id \in Opt(0..(MaxMembers + 1)), status \in Opt({"Active", "Returned"}) :
        LET rows == SelectLoans(loans, members, books, member_id, status) IN
        /\ listing' = [member_id |-> member_id, status |-> status,
                       loans |-> rows, total |-> Cardinality(rows)]
        /\ UNCHANGED <<store, calls, pre, ledger, gateway, sessions>>

\* --------------------------------------------------------- specifications
EmptyStore == <<>>

\* a freshly created schema: no book, no member, no loan, no request
Init ==
    /\ books = EmptyStore
    /\ members = EmptyStore
    /\ loans = <<>>
    /\ nextBookId = 1
    /\ nextMemberId = 1
    /\ calls = [p \in Procs |-> Idle]
    /\ book_authors = {}
    /\ sessions = [p \in Procs |-> FreshPool]
    /\ pre = Snapshot
    /\ ledger = [b \in BookIds |-> NoLedger]
    /\ gateway = GatewayIdle
    /\ listing = ListingIdle

\* the steps of the loan lifecycle handlers
LoanSteps(p, fail) ==
    \/ create_loan_book(p, fail)
    \/ create_loan_member(p, fail)
    \/ create_loan_count(p, fail)
    \/ create_loan_insert(p, fail)
    \/ create_loan_update(p, fail)
    \/ return_book_select(p, fail)
    \/ return_book_update_loan(p, fail)
    \/ return_book_update_book(p, fail)

DeleteSteps(p, fail) ==
    \/ delete_book_exists(p, fail)
    \/ delete_book_count(p, fail)
    \/ delete_book_delete(p, fail)
    \/ delete_member_exists(p, fail)
    \/ delete_member_count(p, fail)
    \/ delete_member_update(p, fail)

WriteSteps(p, fail) ==
    \/ create_book_insert(p, fail)
    \/ create_book_last_id(p, fail)
    \/ update_book_exists(p, fail)
    \/ update_book_update(p, fail)
    \/ create_member_insert(p, fail)
    \/ create_member_last_id(p, fail)
    \/ update_member_exists(p, fail)
    \/ update_member_update(p, fail)

\* one worker, one request at a time (no handler awaits), any statement may fail
Next ==
    \E p \in Procs :
        \/ create_loan_request(p, TRUE)
        \/ return_book_request(p, TRUE)
        \/ delete_book_request(p, TRUE)
        \/ delete_member_request(p, TRUE)
        \/ create_book_request(p, TRUE)
        \/ update_book_request(p, TRUE)
        \/ create_member_request(p, TRUE)
        \/ update_member_request(p, TRUE)
        \/ \E fail \in BOOLEAN : LoanSteps(p, fail) \/ DeleteSteps(p, fail) \/ WriteSteps(p, fail)

Spec == Init /\ [][Next]_vars

\* a populated library: every book fully on the shelf, every member active, no loan
InitConc ==
    /\ \E t \in [BookIds -> 1..MaxCopies] :
          /\ books = [b \in BookIds |-> NewBookRow(b, t[b], None)]
          /\ ledger = [b \in BookIds |-> [clean |-> TRUE, k |-> t[b], borrows |-> 0, returns |-> 0]]
    /\ \E x \in [MemberIds -> 1..MaxAllowed] :
          members = [m \in MemberIds |-> NewMemberRow(m, x[m], FullPeriod[1], FullPeriod[2])]
    /\ loans = <<>>
    /\ nextBookId = MaxBooks + 1
    /\ nextMemberId = MaxMembers + 1
    /\ calls = [p \in Procs |-> Idle]
    /\ book_authors = {}
    /\ sessions = [p \in Procs |-> FreshPool]
    /\ pre = Snapshot
    /\ gateway = GatewayIdle
    /\ listing = ListingIdle

\* several workers against one database: requests interleave between round trips
NextConc ==
    \E p \in Procs :
        \/ create_loan_request(p, FALSE)
        \/ return_book_request(p, FALSE)
        \/ delete_book_request(p, FALSE)
        \/ delete_member_request(p, FALSE)
        \/ LoanSteps(p, FALSE)
        \/ DeleteSteps(p, FALSE)

SpecConc == InitConc /\ [][NextConc]_vars

\* the catalogue and the register filled and emptied one request at a time
\* over a database on which no statement fails for an outside reason
NextCatalog ==
    \E p \in Procs :
        \/ create_book_request(p, TRUE)
        \/ create_member_request(p, TRUE)
        \/ delete_book_request(p, TRUE)
        \/ delete_member_request(p, TRUE)
        \/ create_book_insert(p, FALSE)
        \/ create_book_last_id(p, FALSE)
        \/ create_member_insert(p, FALSE)
        \/ create_member_last_id(p, FALSE)
        \/ DeleteSteps(p, FALSE)

SpecCatalog == Init /\ [][NextCatalog]_vars

\* the gateway alone: calls follow one another, any round trip may fail
NextGateway ==
    \/ execute_transaction_call
    \/ execute_query_call
    \/ \E fail \in BOOLEAN : execute_connect(fail)
    \/ \E fault \in Faults : execute_statement(fault)
    \/ \E fault \in Faults : execute_commit(fault)
    \/ execute_except
    \/ execute_finally

SpecGateway == Init /\ [][NextGateway]_vars

\* the pagination block of a list response, for every count and limit
InitPagination ==
    /\ books = EmptyStore
    /\ members = EmptyStore
    /\ loans = <<>>
    /\ nextBookId = 1
    /\ nextMemberId = 1
    /\ calls = [p \in Procs |-> Idle]
    /\ book_authors = {}
    /\ sessions = [p \in Procs |-> FreshPool]
    /\ pre = Snapshot
    /\ ledger = [b \in BookIds |-> NoLedger]
    /\ gateway = GatewayIdle
    /\ \E page \in 1..MaxPage, limit \in 1..limit_le, total \in 0..MaxTotal :
          listing = [page |-> page, limit |-> limit, total |-> total, pagination |-> None]

NextPagination == list_response

SpecPagination == InitPagination /\ [][NextPagination]_vars

\* a catalogue that does not change while a client pages through it
BookRows == [title : 1..MaxTitles, available_copies : 0..MaxCopies, authors : 0..MaxAuthors]

InitListing ==
    /\ books = EmptyStore
    /\ members = EmptyStore
    /\ loans = <<>>
    /\ nextBookId = 1
    /\ nextMemberId = 1
    /\ calls = [p \in Procs |-> Idle]
    /\ book_authors = {}
    /\ sessions = [p \in Procs |-> FreshPool]
    /\ pre = Snapshot
    /\ ledger = [b \in BookIds |-> NoLedger]
    /\ gateway = GatewayIdle
    /\ \E n \in 0..MaxRows :
         \E rows \in [1..n -> BookRows], limit \in 1..(MaxRows + 1), available \in Opt(BOOLEAN) :
          listing = [rows |-> rows, limit |-> limit, available |-> available,
                     served |-> <<>>]

NextListing == get_books

SpecListing == InitListing /\ [][NextListing]_vars

\* two books side by side on the shelf, every copy in, and the members enrolled
ShelfIds == 1..(MaxBooks + 1)

InitLoans ==
    /\ \E t \in [ShelfIds -> 1..MaxCopies] :
          books = [b \in ShelfIds |-> NewBookRow(b, t[b], None)]
    /\ \E x \in [MemberIds -> 1..MaxAllowed] :
          members = [m \in MemberIds |-> NewMemberRow(m, x[m], FullPeriod[1], FullPeriod[2])]
    /\ loans = <<>>
    /\ nextBookId = MaxBooks + 2
    /\ nextMemberId = MaxMembers + 1
    /\ calls = [p \in Procs |-> Idle]
    /\ book_authors = {}
    /\ sessions = [p \in Procs |-> FreshPool]
    /\ pre = Snapshot
    /\ ledger = [b \in BookIds |-> NoLedger]
    /\ gateway = GatewayIdle
    /\ listing = ListingIdle

\* the loan lifecycle alone, one request at a time, any statement may fail
NextLoans ==
    \E p \in Procs :
        \/ create_loan_request(p, TRUE)
        \/ return_book_request(p, TRUE)
        \/ \E fail \in BOOLEAN : LoanSteps(p, fail)

SpecLoans == InitLoans /\ [][NextLoans]_vars

\* a loan history to list: every book and member stored, loans of both kinds
RegisterIds == 1..(MaxMembers + 1)
LoanRows ==
    {[NewLoanRow(m, b) EXCEPT !.loan_status = st,
                              !.return_date = IF st = "Returned" THEN "CURDATE" ELSE @] :
        m \in RegisterIds, b \in ShelfIds, st \in {"Active", "Returned"}}

InitFilters ==
    /\ books = [b \in ShelfIds |-> NewBookRow(b, MaxCopies, None)]
    /\ members = [m \in RegisterIds |-> NewMemberRow(m, MaxAllowed, FullPeriod[1], FullPeriod[2])]
    /\ \E n \in 0..MaxLoans : loans \in [1..n -> LoanRows]
    /\ nextBookId = MaxBooks + 2
    /\ nextMemberId = MaxMembers + 2
    /\ calls = [p \in Procs |-> Idle]
    /\ book_authors = {}
    /\ sessions = [p \in Procs |-> FreshPool]
    /\ pre = Snapshot
    /\ ledger = [b \in BookIds |-> NoLedger]
    /\ gateway = GatewayIdle
    /\ listing = ListingIdle

NextFilters == get_loans

SpecFilters == InitFilters /\ [][NextFilters]_vars

\* the catalogue written with author lists, one request at a time, any
\* statement may fail
BookSteps(p, fail) ==
    \/ create_book_insert(p, fail)
    \/ create_book_last_id(p, fail)
    \/ create_book_author(p, fail)
    \/ update_book_exists(p, fail)
    \/ update_book_update(p, fail)
    \/ update_book_delete_authors(p, fail)
    \/ update_book_author(p, fail)
    \/ delete_book_exists(p, fail)
    \/ delete_book_count(p, fail)
    \/ delete_book_delete(p, fail)

NextBooks ==
    \E p \in Procs :
        \/ create_book_body(p, TRUE, Opt(AuthorLists))
        \/ update_book_body(p, TRUE, Opt(AuthorLists))
        \/ delete_book_request(p, TRUE)
        \/ \E fail \in BOOLEAN : BookSteps(p, fail)

SpecBooks == Init /\ [][NextBooks]_vars

\* a shelf of books with their authors recorded and the members enrolled;
\* loans are made and returned, books and members deleted, one request at a
\* time, any statement may fail
InitRemoval ==
    /\ books = [b \in ShelfIds |-> NewBookRow(b, MaxCopies, None)]
    /\ members = [m \in MemberIds |-> NewMemberRow(m, MaxAllowed, FullPeriod[1], FullPeriod[2])]
    /\ loans = <<>>
    /\ nextBookId = MaxBooks + 2
    /\ nextMemberId = MaxMembers + 1
    /\ calls = [p \in Procs |-> Idle]
    /\ book_authors = ShelfIds \X AuthorIds
    /\ sessions = [p \in Procs |-> FreshPool]
    /\ pre = Snapshot
    /\ ledger = [b \in BookIds |-> NoLedger]
    /\ gateway = GatewayIdle
    /\ listing = ListingIdle

NextRemoval ==
    \E p \in Procs :
        \/ create_loan_request(p, TRUE)
        \/ return_book_request(p, TRUE)
        \/ delete_book_request(p, TRUE)
        \/ delete_member_request(p, TRUE)
        \/ \E fail \in BOOLEAN : LoanSteps(p, fail) \/ DeleteSteps(p, fail)

SpecRemoval == InitRemoval /\ [][NextRemoval]_vars

\* every handler as in Spec, with the requests that do not validate: bodies
\* with a required field missing or out of range, list queries out of range
NextValidation ==
    \/ Next
    \/ \E p \in Procs :
          \/ create_book_post(p, TRUE, Opt(Isbns), Opt(0..MaxCopies), {{<<>>}})
          \/ list_request(p, TRUE)
          \/ \E fail \in BOOLEAN : list_select(p, fail)

SpecValidation == Init /\ [][NextValidation]_vars

\* the register alone: members enrolled and edited, dates included, one
\* request at a time, any statement may fail
NextMembers ==
    \E p \in Procs :
        \/ create_member_body(p, TRUE, Dates \X Dates)
        \/ update_member_body(p, TRUE, Opt(Dates), Opt(Dates))
        \/ \E fail \in BOOLEAN :
              \/ create_member_insert(p, fail)
              \/ create_member_last_id(p, fail)
              \/ update_member_exists(p, fail)
              \/ update_member_update(p, fail)

SpecMembers == Init /\ [][NextMembers]_vars

\* every handler as in Spec, and the two lookups by id
NextLookup ==
    \/ Next
    \/ \E p \in Procs :
          \/ get_book_request(p, TRUE)
          \/ get_member_request(p, TRUE)
          \/ \E fail \in BOOLEAN :
                \/ get_book_select(p, fail)
                \/ get_member_select(p, fail)
                \/ get_member_history(p, fail)

SpecLookup == Init /\ [][NextLookup]_vars

\* ------------------------------------------------------------ properties
Done(p, o) == calls[p].op = o /\ calls[p].pc = "done"
StoreUnchanged == Snapshot = pre

\* C1: every stored book has 0 <= available_copies <= total_copies.
C1_AvailableWithinTotal ==
    \A b \in DOMAIN books :
        /\ 0 <= books[b].available_copies
        /\ books[b].available_copies <= books[b].total_copies

\* C2: no member holds more Active loans than max_books_allowed, and a
\* create_loan made while the member holds max_books_allowed Active loans
\* ends 400 "maximum book loan limit" with no loan created.
C2_ActiveLoansWithinLimit ==
    /\ \A m \in DOMAIN members :
          ActiveLoansOfMember(loans, m) <= members[m].max_books_allowed
    /\ \A p \in Procs :
          LET c == calls[p] IN
          (/\ Done(p, "create_loan")
           /\ c.status \notin {422, 500}
           /\ c.book_id \in DOMAIN pre.books
           /\ pre.books[c.book_id].available_copies > 0
           /\ c.member_id \in DOMAIN pre.members
           /\ pre.members[c.member_id].is_active
           /\ ActiveLoansOfMember(pre.loans, c.member_id)
                 >= pre.members[c.member_id].max_books_allowed)
          => (/\ c.status = 400
              /\ c.detail = "Member has reached maximum book loan limit"
              /\ StoreUnchanged)

\* C3: a finished create_loan has either both inserted its loan row and
\* decremented available_copies, or done neither; a call that ends in an
\* error leaves no effect.
C3_BorrowAllOrNothing ==
    \A p \in Procs :
        LET c == calls[p]
            b == c.book_id
            inserted == Len(loans) > Len(pre.loans)
            decremented == /\ b \in DOMAIN books
                           /\ b \in DOMAIN pre.books
                           /\ books[b].available_copies = pre.books[b].available_copies - 1
        IN Done(p, "create_loan") =>
              /\ inserted <=> decremented
              /\ c.status # 201 => StoreUnchanged

\* C4: concurrent create_loan calls never drive available_copies below zero,
\* and no more of them succeed than there were copies available.
C4_NoOversell ==
    \A b \in DOMAIN books :
        /\ books[b].available_copies >= 0
        /\ ledger[b].clean => ledger[b].borrows - ledger[b].returns <= ledger[b].k

\* C5: of two concurrent return_book calls on the same transaction at most
\* one succeeds.
C5_ReturnOnce ==
    \A p \in Procs, q \in Procs :
        (/\ p # q
         /\ Done(p, "return_book")
         /\ Done(q, "return_book")
         /\ calls[p].transaction_id = calls[q].transaction_id)
        => ~(calls[p].status = 200 /\ calls[q].status = 200)

\* C6: a create_loan handler run for a book with available_copies = 0 ends
\* 400 "Book is not available for loan" (500 if the availability query itself
\* fails) and leaves books, members and loans as they were.
C6_UnavailableBorrowRejected ==
    \A p \in Procs :
        LET c == calls[p] IN
        (/\ Done(p, "create_loan")
         /\ c.status # 422
         /\ c.book_id \in DOMAIN pre.books
         /\ pre.books[c.book_id].available_copies = 0)
        => /\ \/ c.status = 400 /\ c.detail = "Book is not available for loan"
              \/ c.status = 500
           /\ StoreUnchanged

C6_Witness ==
    \E p \in Procs :
        /\ Done(p, "create_loan")
        /\ calls[p].book_id \in DOMAIN pre.books
        /\ pre.books[calls[p].book_id].available_copies = 0
        /\ calls[p].status = 400
        /\ calls[p].detail = "Book is not available for loan"

C8_SecondReturnRejected ==
    \A p \in Procs :
        LET c == calls[p] IN
        (/\ Done(p, "return_book")
         /\ c.transaction_id \in DOMAIN pre.loans
         /\ pre.loans[c.transaction_id].loan_status = "Returned")
        => /\ \/ c.status = 404 /\ c.detail = "Active loan not found"
              \/ c.status = 500
           /\ StoreUnchanged

C8_Witness ==
    \E p \in Procs :
        /\ Done(p, "return_book")
        /\ calls[p].transaction_id \in DOMAIN pre.loans
        /\ pre.loans[calls[p].transaction_id].loan_status = "Returned"
        /\ pre.loans[calls[p].transaction_id].return_date = "CURDATE"
        /\ calls[p].status = 404

\* C9: delete_book / delete_member of a stored entity with an Active loan
\* ends 400 and changes nothing; with no Active loan it ends 200, the book row
\* gone or the member deactivated (a failed statement ends 500 instead).
C9_DeleteGuard ==
    \A p \in Procs :
        LET c == calls[p] IN
        /\ (Done(p, "delete_book") /\ c.book_id \in DOMAIN pre.books) =>
              IF ActiveLoansOfBook(pre.loans, c.book_id) > 0
              THEN /\ \/ c.status = 400 /\ c.detail = "Cannot delete book with active loans"
                      \/ c.status = 500
                   /\ StoreUnchanged
              ELSE \/ c.status = 200 /\ c.book_id \notin DOMAIN books
                   \/ c.status = 500 /\ StoreUnchanged
        /\ (Done(p, "delete_member") /\ c.member_id \in DOMAIN pre.members) =>
              IF ActiveLoansOfMember(pre.loans, c.member_id) > 0
              THEN /\ \/ c.status = 400 /\ c.detail = "Cannot delete member with active loans. Please return all books first."
                      \/ c.status = 500
                   /\ StoreUnchanged
              ELSE \/ /\ c.status = 200
                      /\ c.member_id \in DOMAIN members
                      /\ ~members[c.member_id].is_active
                   \/ c.status = 500 /\ StoreUnchanged

C9_Witness ==
    \E p \in Procs :
        /\ Done(p, "delete_book")
        /\ calls[p].book_id \in DOMAIN pre.books
        /\ ActiveLoansOfBook(pre.loans, calls[p].book_id) > 0
        /\ calls[p].status = 400

\* the outcome section 4.1 prescribes for BorrowBook on a given store: the
\* preconditions in their order, the first that fails decides
ExpectedBorrow(s, c) ==
    IF ~(c.due_date > c.loan_date)
    THEN <<422, "Due date must be after loan date">>
    ELSE IF c.book_id \notin DOMAIN s.books \/ ~(s.books[c.book_id].available_copies > 0)
    THEN <<400, "Book is not available for loan">>
    ELSE IF c.member_id \notin DOMAIN s.members
    THEN <<404, "Member not found">>
    ELSE IF ~s.members[c.member_id].is_active
    THEN <<400, "Member account is not active">>
    ELSE IF ~(ActiveLoansOfMember(s.loans, c.member_id)
                 < s.members[c.member_id].max_books_allowed)
    THEN <<400, "Member has reached maximum book loan limit">>
    ELSE <<201, "Book loan created successfully">>

\* C10: create_loan reports the first precondition that fails, in the order
\* due date, book availability, member existence, member activity, loan limit,
\* and a rejected call changes nothing (a failed statement ends 500 instead).
C10_FirstFailureWins ==
    \A p \in Procs :
        LET c == calls[p] IN
        (Done(p, "create_loan") /\ c.status # 500) =>
            /\ <<c.status, c.detail>> = ExpectedBorrow(pre, c)
            /\ c.status # 201 => StoreUnchanged

C10_Witness ==
    \E p \in Procs :
        LET c == calls[p] IN
        /\ Done(p, "create_loan")
        /\ c.book_id \in DOMAIN pre.books
        /\ pre.books[c.book_id].available_copies = 0
        /\ c.member_id \in DOMAIN pre.members
        /\ ~pre.members[c.member_id].is_active
        /\ ActiveLoansOfMember(pre.loans, c.member_id)
              >= pre.members[c.member_id].max_books_allowed
        /\ c.status = 400
        /\ c.detail = "Book is not available for loan"

\* C11: a successful return_book marks exactly the named transaction Returned
\* with today's return_date, adds exactly one available copy to the book of
\* that loan, and leaves every other loan, every other book and the members
\* as they were.
C11_ReturnEffect ==
    \A p \in Procs :
        (Done(p, "return_book") /\ calls[p].status = 200) =>
            LET t == calls[p].transaction_id IN
            /\ t \in DOMAIN pre.loans
            /\ pre.loans[t].loan_status = "Active"
            /\ DOMAIN loans = DOMAIN pre.loans
            /\ loans[t] = [pre.loans[t] EXCEPT !.loan_status = "Returned",
                                               !.return_date = "CURDATE"]
            /\ \A u \in DOMAIN loans \ {t} : loans[u] = pre.loans[u]
            /\ DOMAIN books = DOMAIN pre.books
            /\ pre.loans[t].book_id \in DOMAIN books
            /\ \A b \in DOMAIN books :
                  books[b] = IF b = pre.loans[t].book_id
                             THEN [pre.books[b] EXCEPT !.available_copies = @ + 1]
                             ELSE pre.books[b]
            /\ members = pre.members

\* a return is answered 200 while another loan, of the other book, is out
C11_Witness ==
    \E p \in Procs :
        /\ Done(p, "return_book") /\ calls[p].status = 200
        /\ \E u \in DOMAIN loans :
              /\ u # calls[p].transaction_id
              /\ loans[u].loan_status = "Active"
              /\ loans[u].book_id # loans[calls[p].transaction_id].book_id

\* C12: only create_loan and return_book move loan_status and
\* available_copies: a finished update_book, update_member, delete_member or
\* create_member leaves the available_copies of every stored book and the
\* loan_status of every loan as they were when the request arrived.
C12_OnlyLoansMoveCopies ==
    \A p \in Procs :
        (\E o \in {"update_book", "update_member", "delete_member", "create_member"} :
            Done(p, o)) =>
            /\ \A b \in DOMAIN books \cap DOMAIN pre.books :
                  books[b].available_copies = pre.books[b].available_copies
            /\ DOMAIN loans = DOMAIN pre.loans
            /\ \A t \in DOMAIN loans : loans[t].loan_status = pre.loans[t].loan_status

\* C13: a create_loan answered 201 carries in its response data the
\* transaction_id of the loan it created: an Active loan of the requested
\* member and book that was not there when the request arrived.
C13_CreatedLoanIdReturned ==
    \A p \in Procs :
        (Done(p, "create_loan") /\ calls[p].status = 201) =>
            /\ IsSet(calls[p].data)
            /\ Val(calls[p].data) \in DOMAIN loans \ DOMAIN pre.loans
            /\ loans[Val(calls[p].data)].loan_status = "Active"
            /\ loans[Val(calls[p].data)].member_id = calls[p].member_id
            /\ loans[Val(calls[p].data)].book_id = calls[p].book_id

\* the loans a member holds: the Active rows of loan_transactions
HeldBy(ls, m) ==
    Cardinality({t \in DOMAIN ls : ls[t].member_id = m /\ ls[t].loan_status = "Active"})

\* C14: returning a loan frees its slot in the member's limit. A successful
\* return_book lowers the number of loans its member holds by one, and a
\* create_loan for an available book by an active member is answered 201 when
\* the member holds fewer loans than max_books_allowed on arrival and 400
\* "Member has reached maximum book loan limit" when not, so a member at the
\* limit is refused and is served again after a return.
C14_ReturnFreesSlot ==
    \A p \in Procs :
        LET c == calls[p] IN
        /\ (Done(p, "return_book") /\ c.status = 200) =>
              /\ c.transaction_id \in DOMAIN pre.loans
              /\ HeldBy(loans, pre.loans[c.transaction_id].member_id)
                    = HeldBy(pre.loans, pre.loans[c.transaction_id].member_id) - 1
        /\ (/\ Done(p, "create_loan") /\ c.status \notin {422, 500}
            /\ c.book_id \in DOMAIN pre.books
            /\ pre.books[c.book_id].available_copies > 0
            /\ c.member_id \in DOMAIN pre.members
            /\ pre.members[c.member_id].is_active) =>
              IF HeldBy(pre.loans, c.member_id) < pre.members[c.member_id].max_books_allowed
              THEN /\ c.status = 201
                   /\ HeldBy(loans, c.member_id) = HeldBy(pre.loans, c.member_id) + 1
              ELSE /\ c.status = 400
                   /\ c.detail = "Member has reached maximum book loan limit"
                   /\ StoreUnchanged

\* a member allowed one loan borrows again after returning the first
C14_Witness ==
    \E p \in Procs :
        LET c == calls[p] IN
        /\ Done(p, "create_loan") /\ c.status = 201
        /\ pre.members[c.member_id].max_books_allowed = 1
        /\ \E t \in DOMAIN pre.loans :
              /\ pre.loans[t].member_id = c.member_id
              /\ pre.loans[t].loan_status = "Returned"
        /\ HeldBy(loans, c.member_id) = 1

\* C15: a create_book whose isbn is already stored, and a create_member
\* whose membership_number is already stored, is answered 409 and inserts
\* nothing (a body that fails validation is answered 422 before that).
C15_DuplicateKeyConflict ==
    \A p \in Procs :
        LET c == calls[p] IN
        /\ (/\ Done(p, "create_book") /\ c.status # 422
            /\ \E b \in DOMAIN pre.books : pre.books[b].isbn = Val(c.isbn)) =>
              c.status = 409 /\ StoreUnchanged
        /\ (/\ Done(p, "create_member")
            /\ \E m \in DOMAIN pre.members :
                  pre.members[m].membership_number = Val(c.membership_number)) =>
              c.status = 409 /\ StoreUnchanged

\* C16: every database failure is answered 500 with one and the same body,
\* whatever the underlying error: no two 500 bodies the gateway has produced
\* differ.
C16_UniformServerError ==
    \A x \in gateway.bodies, y \in gateway.bodies : x = y

\* C17: every connection a gateway call takes from the pool is given back
\* when the call ends, whether it returns or raises: a call holds at most one
\* connection, none is out once the call has ended, and the number out never
\* exceeds pool_size.
C17_ConnectionsReleased ==
    /\ gateway.out <= pool_size
    /\ gateway.out = IF gateway.call.connection THEN 1 ELSE 0
    /\ GatewayFree => gateway.out = 0

\* a call that took a connection and then raised has ended
C17_Witness ==
    /\ gateway.call.pc = "raised"
    /\ gateway.call.error # NoError
    /\ gateway.out = 0

\* the statements of a list run one after another on one view of the table
RECURSIVE Replay(_, _)
Replay(tbl, qs) ==
    IF qs = <<>> THEN [table |-> tbl, results |-> <<>>]
    ELSE LET r == Replay(Apply(tbl, Head(qs)), Tail(qs)) IN
         [table |-> r.table,
          results |-> <<StatementResult(tbl, Head(qs))>> \o r.results]

\* C18: execute_transaction is all or nothing. When it returns, the table
\* holds the effect of all its statements and the result list has one entry
\* per statement, in order. Until then, and for good when it raises, the
\* table is what it was when the call began, and a failure is raised as an
\* error.
C18_TransactionAllOrNothing ==
    LET c == gateway.call IN
    c.fn = "execute_transaction" =>
        /\ c.outcome = "returned" =>
              /\ gateway.table = Replay(c.start, c.queries).table
              /\ c.results = Replay(c.start, c.queries).results
              /\ Len(c.results) = Len(c.queries)
        /\ c.outcome # "returned" => gateway.table = c.start
        /\ c.pc = "raised" => c.detail # ""

\* the second statement failed after the first had inserted a new row
C18_Witness ==
    LET c == gateway.call IN
    /\ c.fn = "execute_transaction"
    /\ c.pc = "raised"
    /\ Len(c.results) = 1
    /\ c.queries[1].kind = "INSERT"
    /\ c.queries[1].key \notin c.start

\* C19: the pagination block of a list response reports pages = ceil(total /
\* limit), the least number of pages of limit rows that hold total rows (0
\* for total = 0), and echoes the requested page and limit.
C19_PagesIsCeiling ==
    listing.pagination # None =>
        LET r == Val(listing.pagination) IN
        /\ r.page = listing.page
        /\ r.limit = listing.limit
        /\ r.total = listing.total
        /\ r.pages >= 0
        /\ r.pages * listing.limit >= listing.total
        /\ r.pages > 0 => (r.pages - 1) * listing.limit < listing.total
        /\ (listing.limit = 10 /\ listing.total = 95) => r.pages = 10

\* limit = 10 and total = 95 have been answered with pages = 10
C19_Witness ==
    /\ listing.pagination # None
    /\ listing.limit = 10 /\ listing.total = 95
    /\ Val(listing.pagination).pages = 10

\* the books a listing matches
MatchingBooks ==
    {b \in DOMAIN listing.rows :
        MatchesAvailable(listing.rows[b], listing.available)}

\* how often book b appears on the pages served
Appearances(b) ==
    Cardinality({x \in UNION {{<<p, i>> : i \in DOMAIN listing.served[p].data} :
                                  p \in DOMAIN listing.served} :
                    listing.served[x[1]].data[x[2]] = b})

\* C20: over an unchanging catalogue, page p with limit L holds exactly
\* min(L, max(0, total - (p-1)*L)) rows, total is the number of matching
\* books, and once pages 1..pages have all been served every matching book
\* appears on them exactly once.
C20_PagesPartitionMatches ==
    /\ \A p \in DOMAIN listing.served :
          LET r == listing.served[p]
              rest == r.pagination.total - (p - 1) * listing.limit
          IN
          /\ r.pagination.total = Cardinality(MatchingBooks)
          /\ Len(r.data) = IF rest < 0 THEN 0
                            ELSE IF rest < listing.limit THEN rest ELSE listing.limit
    /\ (\A p \in 1..Pages(Cardinality(MatchingBooks), listing.limit) :
            p \in DOMAIN listing.served) =>
          \A b \in MatchingBooks : Appearances(b) = 1

\* C21: the filters of a listing combine with AND, an absent filter imposes
\* no constraint and a supplied one always does: the loans get_loans returns
\* are exactly the stored loans that equal every supplied filter value, and
\* total is their number.
C21_FiltersConstrain ==
    "loans" \in DOMAIN listing =>
        /\ listing.loans =
              {t \in DOMAIN loans :
                  /\ IsSet(listing.member_id) => loans[t].member_id = Val(listing.member_id)
                  /\ IsSet(listing.status) => loans[t].loan_status = Val(listing.status)}
        /\ listing.total = Cardinality(listing.loans)


\* C29: the id a create_book or create_member call returns is the id of the
\* row this call inserted
C29_ReturnedIdIsInserted ==
    \A p \in Procs :
        LET c == calls[p] IN
        (/\ Done(p, "create_book") \/ Done(p, "create_member")
         /\ c.status = 201) =>
            /\ IsSet(c.inserted)
            /\ c.data = c.inserted


\* C26: a create_book that fails while inserting an author link, and an
\* update_book that fails at any statement, leave the book rows and the
\* authorship links as they were when the request arrived
C26_BookWritesAllOrNothing ==
    \A p \in Procs :
        LET c == calls[p] IN
        (\/ Done(p, "create_book") /\ c.status # 201 /\ c.rest # <<>>
         \/ Done(p, "update_book") /\ c.status \notin {200, 404}) => StoreUnchanged


\* C22: a delete_member that succeeds leaves the member stored with only
\* is_active changed, to false, and a create_loan for a stored inactive
\* member creates no loan and, unless the book stops it first, answers that
\* the member is not active; a delete_book that succeeds leaves neither the
\* book row nor any authorship link of that book
C22_SoftAndHardDelete ==
    \A p \in Procs :
        LET c == calls[p]
            m == c.member_id
            b == c.book_id
        IN
        /\ (Done(p, "delete_member") /\ c.status = 200) =>
              /\ DOMAIN members = DOMAIN pre.members
              /\ m \in DOMAIN members
              /\ members = [pre.members EXCEPT ![m].is_active = FALSE]
        /\ (/\ Done(p, "create_loan") /\ c.status # 422
            /\ m \in DOMAIN pre.members
            /\ ~pre.members[m].is_active) =>
              /\ c.status # 201
              /\ loans = pre.loans
              /\ (/\ c.status # 500
                  /\ b \in DOMAIN pre.books
                  /\ pre.books[b].available_copies > 0) =>
                    /\ c.status = 400
                    /\ c.detail = "Member account is not active"
        /\ (Done(p, "delete_book") /\ c.status = 200) =>
              /\ b \notin DOMAIN books
              /\ \A l \in book_authors : l[1] # b
              /\ b \in DOMAIN pre.books =>
                    /\ DOMAIN books = DOMAIN pre.books \ {b}
                    /\ book_authors = {l \in pre.book_authors : l[1] # b}

\* a loan refused for a member that a delete_member left stored and inactive,
\* after a delete_book took a book and its links and left the other book's
C22_Witness ==
    /\ Done(1, "create_loan")
    /\ calls[1].status = 400
    /\ calls[1].detail = "Member account is not active"
    /\ calls[1].member_id \in DOMAIN members
    /\ ~members[calls[1].member_id].is_active
    /\ \E b \in ShelfIds :
          /\ b \notin DOMAIN books
          /\ book_authors = (ShelfIds \ {b}) \X AuthorIds


\* what the claim calls a request that fails validation
FailsValidation(c) ==
    \/ c.op = "create_loan" /\ c.due_date <= c.loan_date
    \/ /\ c.op = "create_book"
       /\ \/ ~IsSet(c.isbn)
          \/ ~IsSet(c.total_copies)
          \/ Val(c.total_copies) < 1
          \/ IsSet(c.available_copies) /\ Val(c.available_copies) > Val(c.total_copies)
    \/ c.op \in ListOps /\ (c.page < 1 \/ c.limit < 1 \/ c.limit > 100)

\* C23: a request that fails validation is answered 422 and no book, member,
\* loan or link has changed; a 422 is only ever given with the store untouched
\* and nothing inserted
C23_InvalidRejectedUntouched ==
    \A p \in Procs :
        LET c == calls[p] IN
        /\ (c.pc # "idle" /\ FailsValidation(c)) =>
              /\ c.pc = "done"
              /\ c.status = 422
        /\ (c.pc = "done" /\ c.status = 422) =>
              /\ FailsValidation(c)
              /\ StoreUnchanged
              /\ ~IsSet(c.inserted)

\* a loan that would have been made, refused for its dates
C23_Witness ==
    LET c == calls[1] IN
    /\ Done(1, "create_loan")
    /\ c.due_date <= c.loan_date
    /\ c.status = 422
    /\ ~BookNotAvailable(books, c.book_id)
    /\ c.member_id \in DOMAIN members
    /\ members[c.member_id].is_active
    /\ ActiveLoansOfMember(loans, c.member_id) < members[c.member_id].max_books_allowed


\* C24: every stored member has max_books_allowed > 0 and a membership that
\* starts before it expires
C24_MemberRowsValid ==
    \A m \in DOMAIN members :
        /\ members[m].max_books_allowed > 0
        /\ members[m].membership_start_date < members[m].membership_expiry_date


\* C25: a get, update or delete of a book or member whose id is not stored
\* on arrival ends 404 (500 when the lookup itself fails) with an error
\* body of success = false and the not-found message, and the store is as
\* it was
C25_UnknownIdNotFound ==
    \A p \in Procs :
        LET c == calls[p]
            body == ResponseBody(c)
        IN
        /\ (/\ c.pc = "done"
            /\ c.op \in {"get_book", "update_book", "delete_book"}
            /\ c.book_id \notin DOMAIN pre.books) =>
              /\ c.status \in {404, 500}
              /\ c.status = 404 => body = [success |-> FALSE, message |-> "Book not found"]
              /\ StoreUnchanged
        /\ (/\ c.pc = "done"
            /\ c.op \in {"get_member", "update_member", "delete_member"}
            /\ c.member_id \notin DOMAIN pre.members) =>
              /\ c.status \in {404, 500}
              /\ c.status = 404 => body = [success |-> FALSE, message |-> "Member not found"]
              /\ StoreUnchanged

\* a member looked up by an id that is not stored, beside one that is
C25_Witness ==
    /\ Done(1, "get_member")
    /\ calls[1].member_id \notin DOMAIN members
    /\ calls[1].status = 404
    /\ DOMAIN members # {}
    /\ DOMAIN books # {}


\* C27: whenever every create_loan and return_book call made so far has been
\* answered, each book has as many copies out (total_copies - available_copies)
\* as it has Active loans
C27_CopiesOutMatchActiveLoans ==
    (\A p \in Procs : Free(p)) =>
        \A b \in DOMAIN books :
            books[b].total_copies - books[b].available_copies
                = ActiveLoansOfBook(loans, b)

\* C28: whenever every call has been answered, no Active loan is of a member
\* that a delete_member has deactivated (members start active and nothing
\* else clears is_active here); the part of the claim that does not depend on
\* how loan_transactions references books
C28_NoActiveLoanOfDeleted ==
    (\A p \in Procs : Free(p)) =>
        \A t \in DOMAIN loans :
            loans[t].loan_status = "Active" =>
                /\ loans[t].member_id \in DOMAIN members
                /\ members[loans[t].member_id].is_active

====
